---- MODULE Spec2Model ----
(***************************************************************************)
(* Model of reviewboard/static/rb/js/common/actions/index.ts: the barrel   *)
(* module that imports Action, MenuAction, ActionView and MenuActionView   *)
(* from four collaborator modules and exports them as the properties of    *)
(* one object, Actions.                                                    *)
(*                                                                         *)
(* The state is the module graph as the ES module loader sees it (each     *)
(* collaborator's status and export binding, the aggregator's status and   *)
(* its Actions binding), a heap of objects so that reference identity is   *)
(* distinguishable from equality of contents, and the consumers that       *)
(* import the aggregator and use Actions.                                  *)
(***************************************************************************)
EXTENDS Naturals, Sequences, FiniteSets

(* ---------------------------------------------------------------- bounds *)

NumConsumers == 2

MaxArg == 2

MaxWrites == 1

Consumers == 1..NumConsumers

Args == 1..MaxArg

(* ------------------------------------------------------- the source text *)

\* index.ts:1-4, the import declarations in source order.
ImportOrder ==
    <<"models/action", "models/menuAction",
      "views/actionView", "views/menuActionView">>

Collaborators == {ImportOrder[i] : i \in 1..Len(ImportOrder)}

\* index.ts:1-4, the name each import declaration binds.
ImportedName ==
    [m \in Collaborators |->
        CASE m = "models/action" -> "Action"
          [] m = "models/menuAction" -> "MenuAction"
          [] m = "views/actionView" -> "ActionView"
          [] m = "views/menuActionView" -> "MenuActionView"]

ImportedNames == {ImportedName[m] : m \in Collaborators}

\* The collaborator an imported name comes from.
OriginOf(k) == CHOOSE m \in Collaborators : ImportedName[m] = k

(* ------------------------------------------------------------ the values *)

\* The value of a binding that is not initialized; heap addresses are 1..
Undef == 0

Fates == {"ok", "unresolvable", "throws"}

NoError == [kind |-> "none", module |-> "none"]

ResolveError(m) == [kind |-> "resolve", module |-> m]

ThrowError(m) == [kind |-> "throw", module |-> m]

NoProps == [k \in {} |-> Undef]

\* The value a collaborator module creates and exports under its name.
ClassObject(m) == [kind |-> "class", name |-> ImportedName[m], props |-> NoProps]

\* A plain object with the given properties.
PlainObject(p) == [kind |-> "object", name |-> "", props |-> p]

\* Property access obj.k: undefined for a property the object does not have.
Get(obj, k) == IF k \in DOMAIN obj.props THEN obj.props[k] ELSE Undef

\* `new C(arg)` (or a call C(arg)), observed as the constructor that ran and
\* what it was given.
New(ref, arg) == [constructor |-> ref, arg |-> arg]

ActionsLiteralCrossWired(b) ==
    [k \in {"Action", "ActionView", "MenuAction", "MenuActionView"} |->
        CASE k = "Action" -> b["views/actionView"]
          [] k = "ActionView" -> b["models/action"]
          [] k = "MenuAction" -> b["models/menuAction"]
          [] k = "MenuActionView" -> b["views/menuActionView"]]

ActionsLiteralMissingKey(b) ==
    [k \in {"Action", "ActionView", "MenuAction"} |->
        CASE k = "Action" -> b["models/action"]
          [] k = "ActionView" -> b["views/actionView"]
          [] k = "MenuAction" -> b["models/menuAction"]]

ActionsLiteralSwappedModels(b) ==
    [k \in {"Action", "ActionView", "MenuAction", "MenuActionView"} |->
        CASE k = "Action" -> b["models/menuAction"]
          [] k = "ActionView" -> b["views/actionView"]
          [] k = "MenuAction" -> b["models/action"]
          [] k = "MenuActionView" -> b["views/menuActionView"]]

\* index.ts:7-12, the object literal { Action, ActionView, MenuAction,
\* MenuActionView }: each shorthand property K is K: <value of binding K>.
\* b gives the current value of the import binding of each collaborator.
ActionsLiteral(b) ==
    [k \in {"Action", "ActionView", "MenuAction", "MenuActionView"} |->
        CASE k = "Action" -> b["models/action"]
          [] k = "ActionView" -> b["views/actionView"]
          [] k = "MenuAction" -> b["models/menuAction"]
          [] k = "MenuActionView" -> b["views/menuActionView"]]

(* ------------------------------------------------------------- the state *)

VARIABLES
    fate,       \* what happens when a collaborator is loaded (an input)
    status,     \* collaborator -> "uninitialized" | "initialized" | "failed"
    exports,    \* collaborator -> address of its exported value, or Undef
    colErr,     \* collaborator -> the error its load failed with
    evalCount,  \* collaborator -> times its top-level code has run
    heap,       \* sequence of objects; an address is an index
    aggStatus,  \* "uninitialized" | "evaluating" | "initialized" | "failed"
    depIdx,     \* next import declaration whose module is to be evaluated
    aggErr,     \* the error the aggregator's load failed with
    actions,    \* the export binding Actions: an address, or Undef
    initCount,  \* times the aggregator's top-level code has run
    cstate,     \* consumer -> "new" | "waiting" | "loaded" | "failed"
    cerr,       \* consumer -> the error its import failed with
    last,       \* what the last use of Actions by a consumer observed: a
                \* property read (and whether the use before it was a read
                \* of the same key) or a construction, made through
                \* Actions and directly
    writes      \* property assignments made to Actions by consumers

vars ==
    <<fate, status, exports, colErr, evalCount, heap, aggStatus, depIdx,
      aggErr, actions, initCount, cstate, cerr, last, writes>>

collabVars == <<status, exports, colErr, evalCount>>

aggVars == <<aggStatus, depIdx, aggErr, actions, initCount>>

useVars == <<last, writes>>

NoUse == [op |-> "none"]

\* Whether the use u was a read of key k.
IsReadOf(u, k) == u.op = "read" /\ u.key = k

Init ==
    /\ fate \in [Collaborators -> Fates]
    /\ status = [m \in Collaborators |-> "uninitialized"]
    /\ exports = [m \in Collaborators |-> Undef]
    /\ colErr = [m \in Collaborators |-> NoError]
    /\ evalCount = [m \in Collaborators |-> 0]
    /\ heap = << >>
    /\ aggStatus = "uninitialized"
    /\ depIdx = 1
    /\ aggErr = NoError
    /\ actions = Undef
    /\ initCount = 0
    /\ cstate = [c \in Consumers |-> "new"]
    /\ cerr = [c \in Consumers |-> NoError]
    /\ last = NoUse
    /\ writes = 0

(* ----------------------------------------------------- collaborator load *)

\* The top-level code of collaborator m runs: it either creates the value it
\* exports or throws.
RunCollaborator(m) ==
    /\ evalCount' = [evalCount EXCEPT ![m] = @ + 1]
    /\ IF fate[m] = "ok"
       THEN /\ heap' = Append(heap, ClassObject(m))
            /\ exports' = [exports EXCEPT ![m] = Len(heap) + 1]
            /\ status' = [status EXCEPT ![m] = "initialized"]
            /\ colErr' = colErr
       ELSE /\ heap' = heap
            /\ exports' = exports
            /\ status' = [status EXCEPT ![m] = "failed"]
            /\ colErr' = [colErr EXCEPT ![m] = ThrowError(m)]

\* Some other module of the page imports collaborator m directly, before or
\* after the aggregator is loaded (evaluation of a module graph is
\* synchronous, so not in the middle of the aggregator's own evaluation).
ImportCollaborator(m) ==
    /\ aggStatus # "evaluating"
    /\ status[m] = "uninitialized"
    /\ IF fate[m] = "unresolvable"
       THEN /\ status' = [status EXCEPT ![m] = "failed"]
            /\ colErr' = [colErr EXCEPT ![m] = ResolveError(m)]
            /\ UNCHANGED <<exports, evalCount, heap>>
       ELSE RunCollaborator(m)
    /\ UNCHANGED <<fate, aggVars, cstate, cerr, useVars>>

(* ------------------------------------------------- the aggregator's load *)

\* A consumer module imports { Actions } from the aggregator.
Import(c) ==
    /\ cstate[c] = "new"
    /\ cstate' = [cstate EXCEPT ![c] = "waiting"]
    /\ UNCHANGED <<fate, collabVars, heap, aggVars, cerr, useVars>>

\* The import declarations whose module cannot be resolved.
Unresolved == {i \in 1..Len(ImportOrder) : fate[ImportOrder[i]] = "unresolvable"}

FirstOf(S) == CHOOSE i \in S : \A j \in S : i <= j

\* index.ts:1-4 at link time: the loader resolves the four import
\* declarations before it evaluates anything; an unresolvable one fails the
\* aggregator's load.
Link ==
    /\ aggStatus = "uninitialized"
    /\ \E c \in Consumers : cstate[c] = "waiting"
    /\ IF Unresolved # {}
       THEN /\ aggStatus' = "failed"
            /\ aggErr' = ResolveError(ImportOrder[FirstOf(Unresolved)])
            /\ depIdx' = depIdx
       ELSE /\ aggStatus' = "evaluating"
            /\ aggErr' = aggErr
            /\ depIdx' = 1
    /\ UNCHANGED <<fate, collabVars, heap, actions, initCount, cstate, cerr,
                   useVars>>

EvaluateDependencyRecover ==
    /\ aggStatus = "evaluating"
    /\ depIdx <= Len(ImportOrder)
    /\ LET m == ImportOrder[depIdx] IN
        /\ IF status[m] = "uninitialized"
           THEN RunCollaborator(m)
           ELSE UNCHANGED <<collabVars, heap>>
        /\ depIdx' = depIdx + 1
        /\ UNCHANGED <<aggStatus, aggErr>>
    /\ UNCHANGED <<fate, actions, initCount, cstate, cerr, useVars>>

\* index.ts:1-4 at evaluation time: the modules of the import declarations
\* are evaluated in source order, each at most once; an error of one of them
\* ends the aggregator's evaluation with that error.
EvaluateDependency ==
    /\ aggStatus = "evaluating"
    /\ depIdx <= Len(ImportOrder)
    /\ LET m == ImportOrder[depIdx] IN
        CASE status[m] = "initialized" ->
                /\ depIdx' = depIdx + 1
                /\ UNCHANGED <<collabVars, heap, aggStatus, aggErr>>
          [] status[m] = "failed" ->
                /\ aggStatus' = "failed"
                /\ aggErr' = colErr[m]
                /\ UNCHANGED <<collabVars, heap, depIdx>>
          [] status[m] = "uninitialized" ->
                /\ RunCollaborator(m)
                /\ IF fate[m] = "ok"
                   THEN /\ depIdx' = depIdx + 1
                        /\ UNCHANGED <<aggStatus, aggErr>>
                   ELSE /\ aggStatus' = "failed"
                        /\ aggErr' = ThrowError(m)
                        /\ depIdx' = depIdx
    /\ UNCHANGED <<fate, actions, initCount, cstate, cerr, useVars>>

EvaluateBodyEarly ==
    /\ aggStatus = "evaluating"
    /\ depIdx >= Len(ImportOrder)
    /\ heap' = Append(heap, PlainObject(ActionsLiteral(exports)))
    /\ actions' = Len(heap) + 1
    /\ initCount' = initCount + 1
    /\ aggStatus' = "initialized"
    /\ UNCHANGED <<fate, collabVars, depIdx, aggErr, cstate, cerr, useVars>>

EvaluateBodyTagging ==
    /\ aggStatus = "evaluating"
    /\ depIdx > Len(ImportOrder)
    /\ heap' = Append([a \in DOMAIN heap |-> [heap[a] EXCEPT !.name = "Actions." \o @]],
                      PlainObject(ActionsLiteral(exports)))
    /\ actions' = Len(heap) + 1
    /\ initCount' = initCount + 1
    /\ aggStatus' = "initialized"
    /\ UNCHANGED <<fate, collabVars, depIdx, aggErr, cstate, cerr, useVars>>

EvaluateBodyPartial ==
    /\ aggStatus = "evaluating"
    /\ depIdx > Len(ImportOrder)
    /\ heap' = Append(heap, PlainObject(
                   [ActionsLiteral(exports) EXCEPT !["MenuActionView"] = Undef]))
    /\ actions' = Len(heap) + 1
    /\ initCount' = initCount + 1
    /\ aggStatus' = "initialized"
    /\ UNCHANGED <<fate, collabVars, depIdx, aggErr, cstate, cerr, useVars>>

\* index.ts:7-12, the aggregator's top-level code, run once all four
\* dependencies have been evaluated: the object literal is created and bound
\* to the const export Actions.
EvaluateBody ==
    /\ aggStatus = "evaluating"
    /\ depIdx > Len(ImportOrder)
    /\ heap' = Append(heap, PlainObject(ActionsLiteral(exports)))
    /\ actions' = Len(heap) + 1
    /\ initCount' = initCount + 1
    /\ aggStatus' = "initialized"
    /\ UNCHANGED <<fate, collabVars, depIdx, aggErr, cstate, cerr, useVars>>

CompleteNoCache(c) ==
    /\ cstate[c] = "waiting"
    /\ aggStatus \in {"initialized", "failed"}
    /\ IF aggStatus = "initialized"
       THEN cstate' = [cstate EXCEPT ![c] = "loaded"] /\ cerr' = cerr
       ELSE /\ cstate' = [cstate EXCEPT ![c] = "failed"]
            /\ cerr' = [cerr EXCEPT ![c] = aggErr]
    /\ aggStatus' = "uninitialized"
    /\ UNCHANGED <<fate, collabVars, heap, depIdx, aggErr, actions, initCount,
                   useVars>>

\* The import of consumer c completes with the outcome of the aggregator's
\* one load: the binding Actions, or the error the load failed with.
Complete(c) ==
    /\ cstate[c] = "waiting"
    /\ aggStatus \in {"initialized", "failed"}
    /\ IF aggStatus = "initialized"
       THEN cstate' = [cstate EXCEPT ![c] = "loaded"] /\ cerr' = cerr
       ELSE /\ cstate' = [cstate EXCEPT ![c] = "failed"]
            /\ cerr' = [cerr EXCEPT ![c] = aggErr]
    /\ UNCHANGED <<fate, collabVars, heap, aggVars, useVars>>

(* --------------------------------------------------- consumers of Actions *)

ReadRecreate(c, k) ==
    /\ cstate[c] = "loaded"
    /\ heap' = Append(heap, heap[actions])
    /\ actions' = Len(heap) + 1
    /\ last' = [op |-> "read", key |-> k, ref |-> Get(heap[actions], k),
                again |-> IsReadOf(last, k)]
    /\ UNCHANGED <<fate, collabVars, aggStatus, depIdx, aggErr, initCount,
                   cstate, cerr, writes>>

ReadWrapped(c, k) ==
    /\ cstate[c] = "loaded"
    /\ heap' = Append(heap, heap[Get(heap[actions], k)])
    /\ last' = [op |-> "read", key |-> k, ref |-> Len(heap) + 1,
                again |-> IsReadOf(last, k)]
    /\ UNCHANGED <<fate, collabVars, aggVars, cstate, cerr, writes>>

\* Consumer c evaluates Actions.k.
Read(c, k) ==
    /\ cstate[c] = "loaded"
    /\ last' = [op |-> "read", key |-> k, ref |-> Get(heap[actions], k),
                again |-> IsReadOf(last, k)]
    /\ UNCHANGED <<fate, collabVars, heap, aggVars, cstate, cerr, writes>>

\* Consumer c evaluates new Actions.k(arg); for comparison the same
\* construction is made with the export of the collaborator itself.
Construct(c, k, arg) ==
    /\ cstate[c] = "loaded"
    /\ last' = [op |-> "new", key |-> k, arg |-> arg,
                via |-> New(Get(heap[actions], k), arg),
                direct |-> New(exports[OriginOf(k)], arg)]
    /\ UNCHANGED <<fate, collabVars, heap, aggVars, cstate, cerr, writes>>

\* The references a consumer can hold: the exports of initialized
\* collaborators.
ExportedRefs == {exports[m] : m \in Collaborators} \ {Undef}

\* Consumer c evaluates Actions.k = v.  The object literal of index.ts:7-12
\* is neither frozen nor declared readonly, so the assignment succeeds.
Write(c, k, v) ==
    /\ cstate[c] = "loaded"
    /\ writes < MaxWrites
    /\ v \in ExportedRefs
    /\ v # Get(heap[actions], k)
    /\ heap' = [heap EXCEPT ![actions].props[k] = v]
    /\ writes' = writes + 1
    /\ UNCHANGED <<fate, collabVars, aggVars, cstate, cerr, last>>

(* ------------------------------------------------------ the specifications *)

Next ==
    \/ \E m \in Collaborators : ImportCollaborator(m)
    \/ \E c \in Consumers : Import(c)
    \/ Link
    \/ EvaluateDependency
    \/ EvaluateBody
    \/ \E c \in Consumers : Complete(c)
    \/ \E c \in Consumers, k \in ImportedNames : Read(c, k)
    \/ \E c \in Consumers, k \in ImportedNames, arg \in Args : Construct(c, k, arg)

\* Consumers that use Actions as the read-only namespace it is meant to be.
Spec == Init /\ [][Next]_vars

NextMisuse ==
    \/ \E c \in Consumers : Import(c)
    \/ Link
    \/ EvaluateDependency
    \/ EvaluateBody
    \/ \E c \in Consumers : Complete(c)
    \/ \E c \in Consumers, k \in ImportedNames : Read(c, k)
    \/ \E c \in Consumers, k \in ImportedNames, arg \in Args : Construct(c, k, arg)
    \/ \E c \in Consumers, k \in ImportedNames, v \in 1..Len(heap) : Write(c, k, v)

\* Consumers that also assign to the properties of Actions.  Once Actions
\* exists all four collaborators are initialized and ImportCollaborator is
\* disabled, so here the collaborators are loaded by the aggregator alone.
SpecMisuse == Init /\ [][NextMisuse]_vars

(* ----------------------------------------------------------- properties *)

ActionsObject == heap[actions]

\* The error the load of collaborator m fails with, if it fails.
ErrorOf(m) == IF fate[m] = "unresolvable" THEN ResolveError(m) ELSE ThrowError(m)

\* C1: whenever Actions exists, each of its four keys holds the very address
\* its own collaborator exports under that name (the same object, not an
\* equal one), so four distinct exports appear under their own four keys.
IdentityPreserved ==
    actions # Undef =>
        /\ \A m \in Collaborators :
              /\ exports[m] # Undef
              /\ Get(ActionsObject, ImportedName[m]) = exports[m]
        /\ \A k \in ImportedNames : heap[Get(ActionsObject, k)].name = k
        /\ \A j, k \in ImportedNames :
              j # k => Get(ActionsObject, j) # Get(ActionsObject, k)

IdentityPreservedWitness ==
    /\ aggStatus = "initialized"
    /\ exports["views/menuActionView"] = 1
    /\ exports["models/action"] = 3
    /\ Get(ActionsObject, "MenuActionView") = 1
    /\ Get(ActionsObject, "Action") = 3

\* C2: whenever Actions exists, its key set is exactly {Action, ActionView,
\* MenuAction, MenuActionView}, which is the set of imported names.
KeysExact ==
    actions # Undef =>
        /\ DOMAIN ActionsObject.props =
              {"Action", "ActionView", "MenuAction", "MenuActionView"}
        /\ DOMAIN ActionsObject.props = ImportedNames

KeysExactWitness ==
    /\ aggStatus = "initialized"
    /\ Cardinality(DOMAIN ActionsObject.props) = 4
    /\ \E c \in Consumers : cstate[c] = "loaded"

FailurePropagates ==
    /\ (aggStatus = "initialized" \/ actions # Undef) =>
          \A m \in Collaborators : fate[m] = "ok" /\ status[m] = "initialized"
    /\ aggStatus = "evaluating" =>
          \A i \in 1..(depIdx - 1) : status[ImportOrder[i]] = "initialized"
    /\ aggStatus = "failed" =>
          \E m \in Collaborators : fate[m] # "ok" /\ aggErr = ErrorOf(m)
    /\ aggStatus # "failed" => aggErr = NoError
    /\ \A c \in Consumers :
          /\ cstate[c] = "failed" => aggStatus = "failed" /\ cerr[c] = aggErr
          /\ cstate[c] = "loaded" => \A m \in Collaborators : fate[m] = "ok"
          /\ cstate[c] # "failed" => cerr[c] = NoError

FailurePropagatesWitness ==
    /\ \A c \in Consumers :
          cstate[c] = "failed" /\ cerr[c] = ThrowError("views/actionView")
    /\ status["models/action"] = "initialized"
    /\ status["views/menuActionView"] = "uninitialized"
    /\ actions = Undef

\* C5: a read of Actions.k leaves the heap and the Actions binding as they
\* were, returns what the object holds under k, and returns the same
\* reference as the read before it when that was a read of the same key.
ReadIsPure ==
    /\ [](last.op = "read" => last.ref = Get(ActionsObject, last.key))
    /\ [][last'.op = "read" /\ last' # last =>
            /\ heap' = heap
            /\ actions' = actions
            /\ exports' = exports
            /\ last'.again => last.op = "read" /\ last'.ref = last.ref]_vars

ReadIsPureWitness ==
    /\ IsReadOf(last, "ActionView")
    /\ last.again
    /\ last.ref = exports["views/actionView"]
    /\ last.ref # Undef

\* C6: a construction through Actions.k runs the same constructor with the
\* same argument as the construction with the collaborator's own export, for
\* every key and argument, so the two routes give the same result.
ConstructEquivalent ==
    /\ last.op = "new" =>
          /\ last.via = last.direct
          /\ last.via.constructor # Undef
          /\ last.via.arg = last.arg
    /\ actions # Undef =>
          \A k \in ImportedNames, arg \in Args :
              New(Get(ActionsObject, k), arg) = New(exports[OriginOf(k)], arg)

ConstructEquivalentWitness ==
    /\ last.op = "new"
    /\ last.key = "MenuAction"
    /\ last.arg = MaxArg
    /\ last.via.constructor = exports["models/menuAction"]
    /\ exports["models/menuAction"] # Undef

\* C7: the aggregator's top-level code runs at most once, Actions exists
\* exactly when it has run, and once the aggregator is initialized it stays
\* initialized with the same Actions, whatever imports follow.
LifecycleOnce ==
    /\ [](/\ initCount <= 1
          /\ (initCount = 1) <=> (aggStatus = "initialized")
          /\ (actions # Undef) <=> (aggStatus = "initialized"))
    /\ [][aggStatus = "initialized" =>
            /\ aggStatus' = "initialized"
            /\ actions' = actions
            /\ initCount' = initCount]_vars

LifecycleOnceWitness ==
    /\ aggStatus = "initialized"
    /\ initCount = 1
    /\ \A c \in Consumers : cstate[c] = "loaded"

\* C8: the aggregator is initialized only when all four collaborators are;
\* no module's top-level code has run twice; every collaborator's export was
\* created before the Actions object; and the step that runs the
\* aggregator's top-level code starts with all four collaborators
\* initialized.
DependencyOrder ==
    /\ [](/\ aggStatus = "initialized" =>
                \A m \in Collaborators : status[m] = "initialized"
          /\ \A m \in Collaborators : evalCount[m] <= 1
          /\ initCount <= 1
          /\ actions # Undef =>
                \A m \in Collaborators :
                    /\ evalCount[m] = 1
                    /\ exports[m] # Undef
                    /\ exports[m] < actions)
    /\ [][initCount' # initCount =>
            \A m \in Collaborators : status[m] = "initialized"]_vars

DependencyOrderWitness ==
    /\ aggStatus = "initialized"
    /\ exports["views/menuActionView"] = 1
    /\ exports["models/action"] = 2
    /\ actions = 5
    /\ \A m \in Collaborators : evalCount[m] = 1

\* A step of the aggregator's load.
LoadStep == aggStatus' # aggStatus \/ depIdx' # depIdx

\* C9: a step of the aggregator's load leaves every existing object and every
\* bound export as it was and changes nothing of the consumers; the step
\* that runs the aggregator's top-level code changes nothing of the
\* collaborators and only adds the Actions object, and the other steps
\* change at most the collaborator being evaluated.
InitHasNoSideEffects ==
    [][LoadStep =>
          /\ \A a \in DOMAIN heap : heap'[a] = heap[a]
          /\ \A m \in Collaborators : exports[m] # Undef => exports'[m] = exports[m]
          /\ UNCHANGED <<fate, cstate, cerr, last, writes>>
          /\ initCount' # initCount =>
                /\ UNCHANGED <<status, exports, colErr, evalCount>>
                /\ Len(heap') = Len(heap) + 1
                /\ actions' = Len(heap')
          /\ initCount' = initCount =>
                /\ actions' = actions
                /\ \A m \in Collaborators :
                      m # ImportOrder[depIdx] =>
                          /\ status'[m] = status[m]
                          /\ exports'[m] = exports[m]
                          /\ evalCount'[m] = evalCount[m]]_vars

InitHasNoSideEffectsWitness ==
    /\ aggStatus = "initialized"
    /\ exports["models/menuAction"] = 1
    /\ \A m \in Collaborators : heap[exports[m]] = ClassObject(m)
    /\ Len(heap) = 5

\* C10: Actions is either not available or a complete object: all four
\* entries are bound to existing objects; a failed load leaves no Actions
\* behind, and a consumer whose import completed has the complete object.
AtomicPublication ==
    /\ actions # Undef =>
          /\ actions \in DOMAIN heap
          /\ ActionsObject.kind = "object"
          /\ \A k \in ImportedNames :
                /\ k \in DOMAIN ActionsObject.props
                /\ Get(ActionsObject, k) # Undef
                /\ Get(ActionsObject, k) \in DOMAIN heap
    /\ aggStatus \in {"failed", "evaluating", "uninitialized"} => actions = Undef
    /\ \A c \in Consumers : cstate[c] = "loaded" => actions # Undef

AtomicPublicationWitness ==
    /\ aggStatus = "failed"
    /\ aggErr = ThrowError("views/menuActionView")
    /\ actions = Undef
    /\ Len(heap) = 3
    /\ \E c \in Consumers : cstate[c] = "failed"

====
